---- MODULE Spec2Model ----
(***************************************************************************)
(* gosocket: the Hub loop (Server.run), the per-Session inbound loop       *)
(* (Client.readPump), the outbound loop (Client.writePump) and the Client  *)
(* methods Emit, Join, Leave, BroadcastToRoom and Broadcast, as a set of   *)
(* goroutines that interleave statement by statement.                      *)
(*                                                                         *)
(* A goroutine is a task <<kind, session>>; pc[t] is the statement it is   *)
(* about to execute and loc[t] holds the locals of the call it is in.      *)
(* sync.RWMutex is modelled with Go's writer preference: once a writer has *)
(* called Lock, new RLock calls wait.  An unrecovered panic or runtime     *)
(* fault ends the process: no action is enabled once panic # "none".       *)
(***************************************************************************)
EXTENDS Integers, Sequences, FiniteSets, TLC

\* ---------------------------------------------------------------- bounds
\* capacity of a Session's outbound queue (make(chan Message, 256), scaled)
QueueCap == 1
\* inputs of a run: the inbound messages the Sessions' readPumps read, the
\* calls the application makes from its own goroutine and the write errors
\* of the transport, all together
MaxInputs == 2
\* predicates registered with Use
MaxMw == 2

Sessions == {"A", "B"}
Rooms == {"lobby"}
None == "-"

\* ---------------------------------------------------------------- tasks
Hub == <<"hub", None>>
App == <<"app", None>>
Rd(s) == <<"rd", s>>
Readers == {Rd(s) : s \in Sessions}
Tasks == {Hub, App} \cup Readers
NoTask == <<"none", None>>

VARIABLES
  clients,      \* Server.clients: the registry (set of Session ids)
  rooms,        \* Server.rooms: room name -> set of member ids (the Room Index)
  crooms,       \* Client.rooms, per Session
  queue,        \* Client.send: the buffered content of the channel
  capacity,     \* cap(c.send): the buffer size of every Client.send
  closed,       \* Client.send has been closed
  closes,       \* number of close(c.send) calls executed on the Session
  smu,          \* Server.mu
  cmu,          \* Client.mu, per Session
  handlers,     \* Server.handlers: event -> payload shape T of its TypedHandler
  middleware,   \* Server.middleware: sequence of predicates
  pc,           \* per task: the statement it is about to execute
  loc,          \* per task: locals of the call in progress
  rd,           \* per Session: locals of its readPump
  wr,           \* per Session: state of its writePump
  hist,         \* per Session: observations of the run (history)
  inputs,       \* inputs of the run consumed so far
  panic         \* "none", or the panic / runtime fault that ended the process

vars == <<clients, rooms, crooms, queue, capacity, closed, closes, smu, cmu,
          handlers, middleware, pc, loc, rd, wr, hist, inputs, panic>>

\* ------------------------------------------------------------ sync.RWMutex
\* w: the writer that has called Lock (it holds the mutex once held is TRUE),
\* r: read locks held, per task.
MuFree == [w |-> NoTask, held |-> FALSE, r |-> [t \in Tasks |-> 0]]
NoReaders(m) == \A t \in Tasks : m.r[t] = 0
\* RLock waits while a writer holds the mutex or has called Lock
CanRLock(m) == m.w = NoTask
RLock(m, t) == [m EXCEPT !.r[t] = @ + 1]
RUnlock(m, t) == [m EXCEPT !.r[t] = @ - 1]
\* Lock: the call announces the writer; it returns once no reader is left
CanCallLock(m) == m.w = NoTask
CallLock(m, t) == [m EXCEPT !.w = t, !.held = NoReaders(m)]
CanAcquire(m, t) == m.w = t /\ ~m.held /\ NoReaders(m)
Acquire(m) == [m EXCEPT !.held = TRUE]
Unlock(m) == [m EXCEPT !.w = NoTask, !.held = FALSE]

\* ------------------------------------------------------------ messages
\* An outbound Message: ev is its event name, c the Client the sending method
\* was called on, by/n the call that produced it (by = "rd": the n-th inbound
\* message of c's readPump; "hub": the Hub's connect dispatch; "app").
NoMsg == [ev |-> None, c |-> None, by |-> None, n |-> 0]
Message(ev, c, by, n) == [ev |-> ev, c |-> c, by |-> by, n |-> n]

\* Payloads as encoding/json sees them: an object {"room": r}, a JSON string,
\* or the Go value []byte{} the Hub passes for connect and disconnect.
Object(r) == [go |-> "map", room |-> r]
Str == [go |-> "string", room |-> None]
EmptyBytes == [go |-> "bytes", room |-> None]
\* json.Marshal: a map encodes as an object, a string and a []byte (base64)
\* as a JSON string
Marshal(data) == IF data.go = "map" THEN "object" ELSE "string"
\* json.Unmarshal into T: anything decodes into interface{}; only an object
\* decodes into a struct
Unmarshal(json, T) == T = "any" \/ (T = "struct" /\ json = "object")
\* TypedHandler.Handle up to the call of th.handler: TRUE when the payload
\* decodes, so that the handler runs
Decodes(T, data) == Unmarshal(Marshal(data), T)

\* ------------------------------------------------------------ application
\* The handlers the application registers, after the example application:
\* each body makes one call on the Client it is given.
InEvents == {"join", "leave", "emit", "room", "all"}
HandlerShape(ev) == IF ev \in {"join", "leave"} THEN "struct" ELSE "any"
HandlerCall(ev) ==
  CASE ev = "join" -> "Join"
    [] ev = "leave" -> "Leave"
    [] ev = "emit" -> "Emit"
    [] ev = "room" -> "BroadcastToRoom"
    [] ev = "all" -> "Broadcast"
    [] ev = "connect" -> "Emit"
    [] OTHER -> "Nop"
\* the inbound messages a peer sends: an event with an object payload, or,
\* for the events with a typed handler, with a string where T is a struct
Inbound ==
  {<<ev, Object(r)>> : ev \in InEvents, r \in Rooms}
    \cup {<<"join", Str>>}
\* the room a handler body passes on: the payload's, or the fixed room of a
\* handler that names its room itself
DefaultRoom == CHOOSE r \in Rooms : TRUE
RoomOf(data) == IF data.room = None THEN DefaultRoom ELSE data.room

\* middleware predicates the application may register with Use
Preds == {"log", "gate"}
\* "log" lets every message through; "gate" blocks the event "emit"
PredOK(p, c, ev) == p = "log" \/ ev # "emit"

\* a range without the break: every predicate from the i-th on runs
RunEvery(mw, i, c, ev) == SubSeq(mw, i, Len(mw))

\* the range over c.server.middleware from its i-th predicate on: the
\* predicates it runs, in order, up to the first that returns false
RECURSIVE RunMiddleware(_, _, _, _)
RunMiddleware(mw, i, c, ev) ==
  IF i > Len(mw) THEN <<>>
  ELSE IF PredOK(mw[i], c, ev) THEN <<mw[i]>> \o RunMiddleware(mw, i + 1, c, ev)
  ELSE <<mw[i]>>
\* shouldContinue after the range: no predicate that ran returned false
ShouldContinue(ran, c, ev) == \A k \in 1..Len(ran) : PredOK(ran[k], c, ev)

\* ------------------------------------------------------------ locals
NoLoc == [op |-> None, c |-> None, room |-> None, m |-> NoMsg, tgt |-> None,
          snap |-> {}, vis |-> {}, view |-> {}, live |-> TRUE, sent |-> <<>>,
          inner |-> FALSE]
NoRd == [n |-> 0, ev |-> None, data |-> Str, ran |-> <<>>]
NoHist == [connectFired |-> 0, disconnectFired |-> 0, blocked |-> {}]

\* an entry of Server.rooms: ex is FALSE for an absent key (a nil map)
NoRoom == [ex |-> FALSE, mem |-> {}]

Running == panic = "none"

\* The state after NewServer and go server.run(), with the connections of the
\* run accepted; caps: the buffer sizes the run may have been built with.
Start(caps) ==
  /\ clients = {}
  /\ rooms = [r \in Rooms |-> NoRoom]
  /\ crooms = [s \in Sessions |-> {}]
  /\ queue = [s \in Sessions |-> <<>>]
  /\ capacity \in caps
  /\ closed = [s \in Sessions |-> FALSE]
  /\ closes = [s \in Sessions |-> 0]
  /\ smu = MuFree
  /\ cmu = [s \in Sessions |-> MuFree]
  /\ \E T \in {"any", "struct"} :
       handlers = [ev \in InEvents \cup {"connect", "disconnect"} |->
                     IF ev = "connect" THEN T
                     ELSE IF ev = "disconnect" THEN "any" ELSE HandlerShape(ev)]
  /\ middleware = <<>>
  /\ pc = [t \in Tasks |->
             IF t = Hub THEN "hub_select"
             ELSE IF t = App THEN "app_idle" ELSE "hw_register"]
  /\ loc = [t \in Tasks |-> NoLoc]
  /\ rd = [s \in Sessions |-> NoRd]
  /\ wr = [s \in Sessions |-> "off"]
  /\ hist = [s \in Sessions |-> NoHist]
  /\ inputs = 0
  /\ panic = "none"

Init == Start({QueueCap})
\* the same program built with either of two buffer sizes
InitWide == Start({QueueCap, QueueCap + 1})

\* ------------------------------------------------------------ call and return
\* where a call made by task t returns to: the Hub's select, the application
\* goroutine, or the end of readPump's loop body
OpReturnPc(t) ==
  IF t = Hub THEN "hub_select" ELSE IF t = App THEN "app_idle" ELSE "rd_read"
\* at the end of its loop body readPump releases the read lock it took
\* before the dispatch: c.server.mu.RUnlock()
OpReturnMu(t, m) == IF t \in Readers THEN RUnlock(m, t) ELSE m
\* msg is a local of one iteration of readPump's loop
OpReturnRd(t) ==
  IF t \in Readers THEN [rd EXCEPT ![t[2]] = [NoRd EXCEPT !.n = rd[t[2]].n]] ELSE rd
FirstPc(op) ==
  CASE op = "Emit" -> "em_select"
    [] op = "Join" -> "jn_lock"
    [] op = "Leave" -> "lr_lock"
    [] op = "BroadcastToRoom" -> "btr_lookup"
    [] op = "Broadcast" -> "br_rlock"
Frame(op, c, room, m) ==
  [NoLoc EXCEPT !.op = op, !.c = c, !.room = room, !.m = m,
                !.tgt = IF op = "Emit" THEN c ELSE None]

\* ------------------------------------------------------------ Client.Emit
\* after Emit: back in BroadcastToRoom's loop, or back in the caller
EmitReturnPc(t) == IF loc[t].inner THEN "btr_loop" ELSE OpReturnPc(t)
EmitReturnLoc(l) == IF l.inner THEN [l EXCEPT !.tgt = None] ELSE NoLoc
EmitReturnMu(t, m) == IF loc[t].inner THEN m ELSE OpReturnMu(t, m)
EmitReturnRd(t) == IF loc[t].inner THEN rd ELSE OpReturnRd(t)

Push(q, m) == <<m>> \o q
Enqueue(q, m) == Append(q, m)
\* c.mu.RLock(); select { case c.send <- msg: default: ... }, and on the
\* first case the deferred c.mu.RUnlock()
EmitSelect(t) ==
  LET x == loc[t].tgt IN
  /\ Running /\ pc[t] = "em_select"
  /\ CanRLock(cmu[x])
  /\ \/ /\ closed[x]
        /\ panic' = "send on closed channel"
        /\ UNCHANGED <<queue, cmu, smu, pc, loc, rd>>
     \/ /\ ~closed[x] /\ Len(queue[x]) < capacity
        /\ queue' = [queue EXCEPT ![x] = Enqueue(@, loc[t].m)]
        /\ smu' = EmitReturnMu(t, smu)
        /\ pc' = [pc EXCEPT ![t] = EmitReturnPc(t)]
        /\ loc' = [loc EXCEPT ![t] = EmitReturnLoc([@ EXCEPT !.sent = Append(@, x)])]
        /\ rd' = EmitReturnRd(t)
        /\ UNCHANGED <<cmu, panic>>
     \/ /\ ~closed[x] /\ Len(queue[x]) >= capacity
        /\ cmu' = [cmu EXCEPT ![x] = RLock(@, t)]
        /\ pc' = [pc EXCEPT ![t] = "em_close"]
        /\ UNCHANGED <<queue, smu, loc, rd, panic>>
  /\ UNCHANGED <<clients, rooms, crooms, closed, closes, handlers, middleware,
                 wr, hist, inputs, capacity>>

\* default: close(c.send)
EmitClose(t) ==
  LET x == loc[t].tgt IN
  /\ Running /\ pc[t] = "em_close"
  /\ closes' = [closes EXCEPT ![x] = @ + 1]
  /\ IF closed[x]
     THEN /\ panic' = "close of closed channel"
          /\ UNCHANGED <<closed, pc>>
     ELSE /\ closed' = [closed EXCEPT ![x] = TRUE]
          /\ pc' = [pc EXCEPT ![t] = "em_delete"]
          /\ UNCHANGED panic
  /\ UNCHANGED <<clients, rooms, crooms, queue, smu, cmu, handlers, middleware,
                 loc, rd, wr, hist, inputs, capacity>>

\* delete(c.server.clients, c.ID), then the deferred c.mu.RUnlock()
EmitDelete(t) ==
  LET x == loc[t].tgt IN
  /\ Running /\ pc[t] = "em_delete"
  /\ clients' = clients \ {x}
  /\ cmu' = [cmu EXCEPT ![x] = RUnlock(@, t)]
  /\ smu' = EmitReturnMu(t, smu)
  /\ pc' = [pc EXCEPT ![t] = EmitReturnPc(t)]
  /\ loc' = [loc EXCEPT ![t] = EmitReturnLoc(@)]
  /\ rd' = EmitReturnRd(t)
  /\ UNCHANGED <<rooms, crooms, queue, closed, closes, handlers, middleware,
                 wr, hist, inputs, panic, capacity>>

\* ------------------------------------------------------------ Client.Join
\* c.mu.Lock()
JoinLock(t) ==
  LET c == loc[t].c IN
  /\ Running /\ pc[t] = "jn_lock"
  /\ CanCallLock(cmu[c])
  /\ cmu' = [cmu EXCEPT ![c] = CallLock(@, t)]
  /\ pc' = [pc EXCEPT ![t] = IF NoReaders(cmu[c]) THEN "jn_local" ELSE "jn_lock_w"]
  /\ UNCHANGED <<clients, rooms, crooms, queue, closed, closes, smu, handlers,
                 middleware, loc, rd, wr, hist, inputs, panic, capacity>>

JoinLockWait(t) ==
  LET c == loc[t].c IN
  /\ Running /\ pc[t] = "jn_lock_w"
  /\ CanAcquire(cmu[c], t)
  /\ cmu' = [cmu EXCEPT ![c] = Acquire(@)]
  /\ pc' = [pc EXCEPT ![t] = "jn_local"]
  /\ UNCHANGED <<clients, rooms, crooms, queue, closed, closes, smu, handlers,
                 middleware, loc, rd, wr, hist, inputs, panic, capacity>>

\* c.rooms[room] = true; if c.server.rooms[room] == nil
JoinLocal(t) ==
  LET c == loc[t].c
      room == loc[t].room IN
  /\ Running /\ pc[t] = "jn_local"
  /\ crooms' = [crooms EXCEPT ![c] = @ \cup {room}]
  /\ pc' = [pc EXCEPT ![t] = IF rooms[room].ex THEN "jn_insert" ELSE "jn_make"]
  /\ UNCHANGED <<clients, rooms, queue, closed, closes, smu, cmu, handlers,
                 middleware, loc, rd, wr, hist, inputs, panic, capacity>>

\* a task ranging over the member map of room in BroadcastToRoom
Ranging(u, room) ==
  /\ loc[u].op = "BroadcastToRoom" /\ loc[u].room = room
  /\ pc[u] \in {"btr_loop", "em_select", "em_close", "em_delete"}

\* c.server.rooms[room] = make(map[string]*Client): the entry now holds a new
\* map; a range in progress goes on over the map it replaced
JoinMake(t) ==
  LET room == loc[t].room IN
  /\ Running /\ pc[t] = "jn_make"
  /\ rooms' = [rooms EXCEPT ![room] = [ex |-> TRUE, mem |-> {}]]
  /\ loc' = [u \in Tasks |->
               IF Ranging(u, room) /\ loc[u].live
               THEN [loc[u] EXCEPT !.live = FALSE, !.view = rooms[room].mem]
               ELSE loc[u]]
  /\ pc' = [pc EXCEPT ![t] = "jn_insert"]
  /\ UNCHANGED <<clients, crooms, queue, closed, closes, smu, cmu, handlers,
                 middleware, rd, wr, hist, inputs, panic, capacity>>

\* c.server.rooms[room][c.ID] = c, then the deferred c.mu.Unlock()
JoinInsert(t) ==
  LET c == loc[t].c
      room == loc[t].room IN
  /\ Running /\ pc[t] = "jn_insert"
  /\ IF rooms[room].ex
     THEN /\ rooms' = [rooms EXCEPT ![room].mem = @ \cup {c}]
          /\ cmu' = [cmu EXCEPT ![c] = Unlock(@)]
          /\ smu' = OpReturnMu(t, smu)
          /\ pc' = [pc EXCEPT ![t] = OpReturnPc(t)]
          /\ loc' = [loc EXCEPT ![t] = NoLoc]
          /\ rd' = OpReturnRd(t)
          /\ UNCHANGED panic
     ELSE /\ panic' = "assignment to entry in nil map"
          /\ UNCHANGED <<rooms, cmu, smu, pc, loc, rd>>
  /\ UNCHANGED <<clients, crooms, queue, closed, closes, handlers, middleware,
                 wr, hist, inputs, capacity>>

\* ------------------------------------------------------------ Server.leaveRoom
\* (Client.Leave is this call.)  Called by the Hub's unregister case it
\* returns into the range over client.rooms, otherwise to the caller.
LeaveReturnPc(t) == IF loc[t].op = "unregister" THEN "un_rooms" ELSE OpReturnPc(t)
LeaveReturnLoc(l) == IF l.op = "unregister" THEN [l EXCEPT !.room = None] ELSE NoLoc
LeaveReturnMu(t, m) == IF loc[t].op = "unregister" THEN m ELSE OpReturnMu(t, m)
LeaveReturnRd(t) == IF loc[t].op = "unregister" THEN rd ELSE OpReturnRd(t)

\* s.mu.Lock()
LeaveLock(t) ==
  /\ Running /\ pc[t] = "lr_lock"
  /\ CanCallLock(smu)
  /\ smu' = CallLock(smu, t)
  /\ pc' = [pc EXCEPT ![t] = IF NoReaders(smu) THEN "lr_del" ELSE "lr_lock_w"]
  /\ UNCHANGED <<clients, rooms, crooms, queue, closed, closes, cmu, handlers,
                 middleware, loc, rd, wr, hist, inputs, panic, capacity>>

LeaveLockWait(t) ==
  /\ Running /\ pc[t] = "lr_lock_w"
  /\ CanAcquire(smu, t)
  /\ smu' = Acquire(smu)
  /\ pc' = [pc EXCEPT ![t] = "lr_del"]
  /\ UNCHANGED <<clients, rooms, crooms, queue, closed, closes, cmu, handlers,
                 middleware, loc, rd, wr, hist, inputs, panic, capacity>>

\* if clients, exists := s.rooms[room]; exists { delete(clients, client.ID);
\* if len(clients) == 0 {
LeaveDelete(t) ==
  LET c == loc[t].c
      room == loc[t].room IN
  /\ Running /\ pc[t] = "lr_del"
  /\ rooms' = [rooms EXCEPT ![room].mem = @ \ {c}]
  /\ pc' = [pc EXCEPT ![t] =
              IF rooms[room].ex /\ rooms[room].mem \ {c} = {}
              THEN "lr_delroom" ELSE "lr_clock"]
  /\ UNCHANGED <<clients, crooms, queue, closed, closes, smu, cmu, handlers,
                 middleware, loc, rd, wr, hist, inputs, panic, capacity>>

\* delete(s.rooms, room)
LeaveDeleteRoom(t) ==
  /\ Running /\ pc[t] = "lr_delroom"
  /\ rooms' = [rooms EXCEPT ![loc[t].room] = NoRoom]
  /\ pc' = [pc EXCEPT ![t] = "lr_clock"]
  /\ UNCHANGED <<clients, crooms, queue, closed, closes, smu, cmu, handlers,
                 middleware, loc, rd, wr, hist, inputs, panic, capacity>>

\* client.mu.Lock()
LeaveClientLock(t) ==
  LET c == loc[t].c IN
  /\ Running /\ pc[t] = "lr_clock"
  /\ CanCallLock(cmu[c])
  /\ cmu' = [cmu EXCEPT ![c] = CallLock(@, t)]
  /\ pc' = [pc EXCEPT ![t] = IF NoReaders(cmu[c]) THEN "lr_clocal" ELSE "lr_clock_w"]
  /\ UNCHANGED <<clients, rooms, crooms, queue, closed, closes, smu, handlers,
                 middleware, loc, rd, wr, hist, inputs, panic, capacity>>

LeaveClientLockWait(t) ==
  LET c == loc[t].c IN
  /\ Running /\ pc[t] = "lr_clock_w"
  /\ CanAcquire(cmu[c], t)
  /\ cmu' = [cmu EXCEPT ![c] = Acquire(@)]
  /\ pc' = [pc EXCEPT ![t] = "lr_clocal"]
  /\ UNCHANGED <<clients, rooms, crooms, queue, closed, closes, smu, handlers,
                 middleware, loc, rd, wr, hist, inputs, panic, capacity>>

\* delete(client.rooms, room), then the deferred client.mu.Unlock() and
\* s.mu.Unlock()
LeaveLocal(t) ==
  LET c == loc[t].c IN
  /\ Running /\ pc[t] = "lr_clocal"
  /\ crooms' = [crooms EXCEPT ![c] = @ \ {loc[t].room}]
  /\ cmu' = [cmu EXCEPT ![c] = Unlock(@)]
  /\ smu' = LeaveReturnMu(t, Unlock(smu))
  /\ pc' = [pc EXCEPT ![t] = LeaveReturnPc(t)]
  /\ loc' = [loc EXCEPT ![t] = LeaveReturnLoc(@)]
  /\ rd' = LeaveReturnRd(t)
  /\ UNCHANGED <<clients, rooms, queue, closed, closes, handlers, middleware,
                 wr, hist, inputs, panic, capacity>>

\* ------------------------------------------------------------ Client.BroadcastToRoom
\* c.server.mu.RLock(); if clients, ok := c.server.rooms[room]; ok
RoomLookup(t) ==
  LET room == loc[t].room IN
  /\ Running /\ pc[t] = "btr_lookup"
  /\ CanRLock(smu)
  /\ smu' = RLock(smu, t)
  /\ loc' = [loc EXCEPT ![t].snap = rooms[room].mem, ![t].inner = TRUE]
  /\ pc' = [pc EXCEPT ![t] = IF rooms[room].ex THEN "btr_loop" ELSE "btr_ret"]
  /\ UNCHANGED <<clients, rooms, crooms, queue, closed, closes, cmu,
                 handlers, middleware, rd, wr, hist, inputs, panic, capacity>>

\* the map the range is over: the entry of the Room Index, unless a Join
\* replaced that entry meanwhile
RangeMap(t) == IF loc[t].live THEN rooms[loc[t].room].mem ELSE loc[t].view

\* if client.ID != c.ID
RoomSends(x, c) == x # c
\* for _, client := range clients { if client.ID != c.ID { client.Emit(...) } }
\* An entry present since the range began is produced; one added during the
\* range may or may not be.
RoomLoop(t) ==
  /\ Running /\ pc[t] = "btr_loop"
  /\ \/ \E x \in RangeMap(t) \ loc[t].vis :
          /\ loc' = [loc EXCEPT ![t].vis = @ \cup {x},
                                ![t].tgt = IF RoomSends(x, loc[t].c) THEN x ELSE None]
          /\ pc' = [pc EXCEPT ![t] =
                      IF RoomSends(x, loc[t].c) THEN "em_select" ELSE "btr_loop"]
     \/ /\ loc[t].snap \subseteq loc[t].vis
        /\ pc' = [pc EXCEPT ![t] = "btr_ret"]
        /\ UNCHANGED loc
  /\ UNCHANGED <<clients, rooms, crooms, queue, closed, closes, smu, cmu,
                 handlers, middleware, rd, wr, hist, inputs, panic, capacity>>

\* the deferred c.server.mu.RUnlock()
RoomReturn(t) ==
  /\ Running /\ pc[t] = "btr_ret"
  /\ smu' = OpReturnMu(t, RUnlock(smu, t))
  /\ pc' = [pc EXCEPT ![t] = OpReturnPc(t)]
  /\ loc' = [loc EXCEPT ![t] = NoLoc]
  /\ rd' = OpReturnRd(t)
  /\ UNCHANGED <<clients, rooms, crooms, queue, closed, closes, cmu, handlers,
                 middleware, wr, hist, inputs, panic, capacity>>

\* ------------------------------------------------------------ Client.Broadcast
\* c.server.mu.RLock()
BroadcastRLock(t) ==
  /\ Running /\ pc[t] = "br_rlock"
  /\ CanRLock(smu)
  /\ smu' = RLock(smu, t)
  /\ pc' = [pc EXCEPT ![t] = "br_send"]
  /\ UNCHANGED <<clients, rooms, crooms, queue, closed, closes, cmu, handlers,
                 middleware, loc, rd, wr, hist, inputs, panic, capacity>>

\* ------------------------------------------------------------ Server.run
\* case client := <-s.register, with the sender's side of the hand-off:
\* handleWebSocket goes on to start writePump and readPump
HubRegister(s) ==
  /\ Running /\ pc[Hub] = "hub_select" /\ pc[Rd(s)] = "hw_register"
  /\ pc' = [pc EXCEPT ![Hub] = "rg_lock", ![Rd(s)] = "rd_read"]
  /\ loc' = [loc EXCEPT ![Hub] = [NoLoc EXCEPT !.op = "register", !.c = s]]
  /\ wr' = [wr EXCEPT ![s] = "run"]
  /\ UNCHANGED <<clients, rooms, crooms, queue, closed, closes, smu, cmu,
                 handlers, middleware, rd, hist, inputs, panic, capacity>>

\* case client := <-s.unregister, with the sender's side: readPump's
\* deferred send, or the send before the break of the readPump that retries
HubUnregister(s) ==
  /\ Running /\ pc[Hub] = "hub_select" /\ pc[Rd(s)] \in {"rd_defer", "rd_giveup"}
  /\ pc' = [pc EXCEPT ![Hub] = "un_lock",
                      ![Rd(s)] = IF pc[Rd(s)] = "rd_giveup" THEN "rd_defer" ELSE "rd_done"]
  /\ loc' = [loc EXCEPT ![Hub] = [NoLoc EXCEPT !.op = "unregister", !.c = s]]
  /\ UNCHANGED <<clients, rooms, crooms, queue, closed, closes, smu, cmu,
                 handlers, middleware, rd, wr, hist, inputs, panic, capacity>>

\* case message := <-s.broadcast, with Client.Broadcast's send and its
\* deferred c.server.mu.RUnlock()
HubBroadcast(t) ==
  /\ Running /\ pc[Hub] = "hub_select" /\ pc[t] = "br_send"
  /\ pc' = [pc EXCEPT ![Hub] = "bc_rlock", ![t] = OpReturnPc(t)]
  /\ loc' = [loc EXCEPT ![Hub] = [NoLoc EXCEPT !.op = "broadcast", !.m = loc[t].m],
                        ![t] = NoLoc]
  /\ smu' = OpReturnMu(t, RUnlock(smu, t))
  /\ rd' = OpReturnRd(t)
  /\ UNCHANGED <<clients, rooms, crooms, queue, closed, closes, cmu, handlers,
                 middleware, wr, hist, inputs, panic, capacity>>

\* s.mu.Lock() of the register and unregister cases
HubLock ==
  /\ Running /\ pc[Hub] \in {"rg_lock", "un_lock"}
  /\ CanCallLock(smu)
  /\ smu' = CallLock(smu, Hub)
  /\ pc' = [pc EXCEPT ![Hub] =
              IF pc[Hub] = "rg_lock"
              THEN (IF NoReaders(smu) THEN "rg_insert" ELSE "rg_lock_w")
              ELSE (IF NoReaders(smu) THEN "un_check" ELSE "un_lock_w")]
  /\ UNCHANGED <<clients, rooms, crooms, queue, closed, closes, cmu, handlers,
                 middleware, loc, rd, wr, hist, inputs, panic, capacity>>

HubLockWait ==
  /\ Running /\ pc[Hub] \in {"rg_lock_w", "un_lock_w"}
  /\ CanAcquire(smu, Hub)
  /\ smu' = Acquire(smu)
  /\ pc' = [pc EXCEPT ![Hub] = IF pc[Hub] = "rg_lock_w" THEN "rg_insert" ELSE "un_check"]
  /\ UNCHANGED <<clients, rooms, crooms, queue, closed, closes, cmu, handlers,
                 middleware, loc, rd, wr, hist, inputs, panic, capacity>>

\* s.clients[client.ID] = client; s.mu.Unlock()
HubInsert ==
  /\ Running /\ pc[Hub] = "rg_insert"
  /\ clients' = clients \cup {loc[Hub].c}
  /\ smu' = Unlock(smu)
  /\ pc' = [pc EXCEPT ![Hub] = "rg_handler"]
  /\ UNCHANGED <<rooms, crooms, queue, closed, closes, cmu, handlers,
                 middleware, loc, rd, wr, hist, inputs, panic, capacity>>

\* if handler, exists := s.handlers["connect"]; exists {
\*   handler.Handle(client, []byte{}) }
HubConnect ==
  LET c == loc[Hub].c
      fires == "connect" \in DOMAIN handlers /\ Decodes(handlers["connect"], EmptyBytes) IN
  /\ Running /\ pc[Hub] = "rg_handler"
  /\ hist' = [hist EXCEPT ![c].connectFired = IF fires THEN @ + 1 ELSE @]
  /\ pc' = [pc EXCEPT ![Hub] = IF fires THEN FirstPc(HandlerCall("connect")) ELSE "hub_select"]
  /\ loc' = [loc EXCEPT ![Hub] =
               IF fires
               THEN Frame(HandlerCall("connect"), c, None, Message("connect", c, "hub", 0))
               ELSE NoLoc]
  /\ UNCHANGED <<clients, rooms, crooms, queue, closed, closes, smu, cmu,
                 handlers, middleware, rd, wr, inputs, panic, capacity>>

\* if _, ok := s.clients[client.ID]; ok { delete(s.clients, client.ID)
\* and, when the client is not registered, s.mu.Unlock()
HubCheck ==
  LET c == loc[Hub].c IN
  /\ Running /\ pc[Hub] = "un_check"
  /\ clients' = clients \ {c}
  /\ smu' = IF c \in clients THEN smu ELSE Unlock(smu)
  /\ pc' = [pc EXCEPT ![Hub] = IF c \in clients THEN "un_close" ELSE "un_handler"]
  /\ UNCHANGED <<rooms, crooms, queue, closed, closes, cmu, handlers,
                 middleware, loc, rd, wr, hist, inputs, panic, capacity>>

\* close(client.send)
HubClose ==
  LET c == loc[Hub].c IN
  /\ Running /\ pc[Hub] = "un_close"
  /\ closes' = [closes EXCEPT ![c] = @ + 1]
  /\ IF closed[c]
     THEN /\ panic' = "close of closed channel"
          /\ UNCHANGED <<closed, pc>>
     ELSE /\ closed' = [closed EXCEPT ![c] = TRUE]
          /\ pc' = [pc EXCEPT ![Hub] = "un_rooms"]
          /\ UNCHANGED panic
  /\ UNCHANGED <<clients, rooms, crooms, queue, smu, cmu, handlers, middleware,
                 loc, rd, wr, hist, inputs, capacity>>

\* for room := range client.rooms { s.leaveRoom(client, room) }; s.mu.Unlock()
HubRooms ==
  LET c == loc[Hub].c IN
  /\ Running /\ pc[Hub] = "un_rooms"
  /\ \/ \E room \in crooms[c] \ loc[Hub].vis :
          /\ loc' = [loc EXCEPT ![Hub].vis = @ \cup {room}, ![Hub].room = room]
          /\ pc' = [pc EXCEPT ![Hub] = "lr_lock"]
          /\ UNCHANGED smu
     \/ /\ crooms[c] \subseteq loc[Hub].vis
        /\ smu' = Unlock(smu)
        /\ pc' = [pc EXCEPT ![Hub] = "un_handler"]
        /\ UNCHANGED loc
  /\ UNCHANGED <<clients, rooms, crooms, queue, closed, closes, cmu, handlers,
                 middleware, rd, wr, hist, inputs, panic, capacity>>

\* if handler, exists := s.handlers["disconnect"]; exists {
\*   handler.Handle(client, []byte{}) }
HubDisconnect ==
  LET c == loc[Hub].c
      fires == "disconnect" \in DOMAIN handlers
               /\ Decodes(handlers["disconnect"], EmptyBytes) IN
  /\ Running /\ pc[Hub] = "un_handler"
  /\ hist' = [hist EXCEPT ![c].disconnectFired = IF fires THEN @ + 1 ELSE @]
  /\ pc' = [pc EXCEPT ![Hub] = "hub_select"]
  /\ loc' = [loc EXCEPT ![Hub] = NoLoc]
  /\ UNCHANGED <<clients, rooms, crooms, queue, closed, closes, smu, cmu,
                 handlers, middleware, rd, wr, inputs, panic, capacity>>

\* s.mu.RLock() of the broadcast case
HubRLock ==
  /\ Running /\ pc[Hub] = "bc_rlock"
  /\ CanRLock(smu)
  /\ smu' = RLock(smu, Hub)
  /\ loc' = [loc EXCEPT ![Hub].snap = clients]
  /\ pc' = [pc EXCEPT ![Hub] = "bc_loop"]
  /\ UNCHANGED <<clients, rooms, crooms, queue, closed, closes, cmu, handlers,
                 middleware, rd, wr, hist, inputs, panic, capacity>>

\* the Sessions the broadcast case sends to
BroadcastTargets(m) == clients
\* for _, client := range s.clients { select { case client.send <- message:
\* default: ... } }; s.mu.RUnlock().  An entry deleted before the range
\* reaches it is not produced.
HubLoop ==
  /\ Running /\ pc[Hub] = "bc_loop"
  /\ \/ \E x \in BroadcastTargets(loc[Hub].m) \ loc[Hub].vis :
          \/ /\ closed[x]
             /\ panic' = "send on closed channel"
             /\ UNCHANGED <<queue, loc, pc, smu>>
          \/ /\ ~closed[x] /\ Len(queue[x]) < capacity
             /\ queue' = [queue EXCEPT ![x] = Enqueue(@, loc[Hub].m)]
             /\ loc' = [loc EXCEPT ![Hub].vis = @ \cup {x}, ![Hub].sent = Append(@, x)]
             /\ UNCHANGED <<pc, smu, panic>>
          \/ /\ ~closed[x] /\ Len(queue[x]) >= capacity
             /\ loc' = [loc EXCEPT ![Hub].vis = @ \cup {x}, ![Hub].tgt = x]
             /\ pc' = [pc EXCEPT ![Hub] = "bc_close"]
             /\ UNCHANGED <<queue, smu, panic>>
     \/ /\ (loc[Hub].snap \cap clients) \subseteq loc[Hub].vis
        /\ smu' = RUnlock(smu, Hub)
        /\ pc' = [pc EXCEPT ![Hub] = "hub_select"]
        /\ loc' = [loc EXCEPT ![Hub] = NoLoc]
        /\ UNCHANGED <<queue, panic>>
  /\ UNCHANGED <<clients, rooms, crooms, closed, closes, cmu, handlers,
                 middleware, rd, wr, hist, inputs, capacity>>

\* close(client.send) of the broadcast case
HubShedClose ==
  LET x == loc[Hub].tgt IN
  /\ Running /\ pc[Hub] = "bc_close"
  /\ closes' = [closes EXCEPT ![x] = @ + 1]
  /\ IF closed[x]
     THEN /\ panic' = "close of closed channel"
          /\ UNCHANGED <<closed, pc>>
     ELSE /\ closed' = [closed EXCEPT ![x] = TRUE]
          /\ pc' = [pc EXCEPT ![Hub] = "bc_delete"]
          /\ UNCHANGED panic
  /\ UNCHANGED <<clients, rooms, crooms, queue, smu, cmu, handlers, middleware,
                 loc, rd, wr, hist, inputs, capacity>>

\* delete(s.clients, client.ID) of the broadcast case
HubShedDelete ==
  /\ Running /\ pc[Hub] = "bc_delete"
  /\ clients' = clients \ {loc[Hub].tgt}
  /\ loc' = [loc EXCEPT ![Hub].tgt = None]
  /\ pc' = [pc EXCEPT ![Hub] = "bc_loop"]
  /\ UNCHANGED <<rooms, crooms, queue, closed, closes, smu, cmu, handlers,
                 middleware, rd, wr, hist, inputs, panic, capacity>>

\* ------------------------------------------------------------ Client.readPump
\* err := c.conn.ReadJSON(&msg) returns an error: break, and the deferred
\* function runs
ReadError(s) ==
  /\ Running /\ pc[Rd(s)] = "rd_read"
  /\ pc' = [pc EXCEPT ![Rd(s)] = "rd_defer"]
  /\ UNCHANGED <<clients, rooms, crooms, queue, closed, closes, smu, cmu,
                 handlers, middleware, loc, rd, wr, hist, inputs, panic, capacity>>

\* a frame that is not the JSON of a Message
Malformed == [go |-> "malformed", room |-> None]
\* ReadJSON fails to decode the frame it read: the error is handled like any
\* other read error, break, and the deferred function runs
ReadMalformed(s) ==
  /\ Running /\ pc[Rd(s)] = "rd_read"
  /\ inputs < MaxInputs
  /\ inputs' = inputs + 1
  /\ rd' = [rd EXCEPT ![s] = [NoRd EXCEPT !.n = rd[s].n + 1, !.data = Malformed]]
  /\ pc' = [pc EXCEPT ![Rd(s)] = "rd_defer"]
  /\ UNCHANGED <<clients, rooms, crooms, queue, closed, closes, smu, cmu,
                 handlers, middleware, loc, wr, hist, panic, capacity>>

\* The readPump that retries: an error that is not a close error is logged
\* and the loop continues with the next read
ReadSkip(s) ==
  /\ Running /\ pc[Rd(s)] = "rd_read"
  /\ inputs < MaxInputs
  /\ inputs' = inputs + 1
  /\ rd' = [rd EXCEPT ![s] = [NoRd EXCEPT !.n = rd[s].n + 1, !.data = Malformed]]
  /\ UNCHANGED <<clients, rooms, crooms, queue, closed, closes, smu, cmu,
                 handlers, middleware, pc, loc, wr, hist, panic, capacity>>

\* The readPump that retries a read after a close error: once
\* reconnectAttempt > 15 it sends c.server.unregister <- c and breaks, and
\* the deferred function sends it again
ReadGiveUp(s) ==
  /\ Running /\ pc[Rd(s)] = "rd_read"
  /\ pc' = [pc EXCEPT ![Rd(s)] = "rd_giveup"]
  /\ UNCHANGED <<clients, rooms, crooms, queue, closed, closes, smu, cmu,
                 handlers, middleware, loc, rd, wr, hist, inputs, panic, capacity>>

\* ReadJSON returns a message and the middleware runs on it:
\* for _, middleware := range c.server.middleware { if !middleware(c, msg) {
\* shouldContinue = false; break } }; if !shouldContinue { continue }
ReadMessage(s) ==
  /\ Running /\ pc[Rd(s)] = "rd_read"
  /\ inputs < MaxInputs
  /\ inputs' = inputs + 1
  /\ \E in \in Inbound :
       LET ev == in[1]
           ran == RunMiddleware(middleware, 1, s, ev)
           n == rd[s].n + 1 IN
       /\ rd' = [rd EXCEPT ![s] = [n |-> n, ev |-> ev, data |-> in[2], ran |-> ran]]
       /\ IF ShouldContinue(ran, s, ev)
          THEN /\ pc' = [pc EXCEPT ![Rd(s)] = "rd_dispatch"]
               /\ UNCHANGED hist
          ELSE /\ hist' = [hist EXCEPT ![s].blocked = @ \cup {n}]
               /\ UNCHANGED pc
  /\ UNCHANGED <<clients, rooms, crooms, queue, closed, closes, smu, cmu,
                 handlers, middleware, loc, wr, panic, capacity>>

\* c.server.mu.RLock(); if handler, exists := c.server.handlers[msg.Event];
\* exists { if err := handler.Handle(c, msg.Data); err != nil { continue } }
\* and, with no handler, c.server.mu.RUnlock().  The `continue` skips the
\* RUnlock at the end of the loop body.
Dispatch(s) ==
  LET r == rd[s]
      t == Rd(s)
      exists == r.ev \in DOMAIN handlers
      ok == exists /\ Decodes(handlers[r.ev], r.data) IN
  /\ Running /\ pc[t] = "rd_dispatch"
  /\ CanRLock(smu)
  /\ rd' = IF ok THEN rd ELSE OpReturnRd(t)
  /\ pc' = [pc EXCEPT ![t] = IF ok THEN FirstPc(HandlerCall(r.ev)) ELSE "rd_read"]
  /\ loc' = [loc EXCEPT ![t] =
               IF ok
               THEN Frame(HandlerCall(r.ev), s, RoomOf(r.data), Message(r.ev, s, "rd", r.n))
               ELSE NoLoc]
  /\ smu' = IF exists THEN RLock(smu, t) ELSE smu
  /\ UNCHANGED <<clients, rooms, crooms, queue, closed, closes, cmu, handlers,
                 middleware, wr, hist, inputs, panic, capacity>>

\* ------------------------------------------------------------ Server.Use
\* The application registers its middleware before it serves.
Use(p) ==
  /\ Running
  /\ \A s \in Sessions : pc[Rd(s)] = "hw_register"
  /\ Len(middleware) < MaxMw
  /\ \A k \in 1..Len(middleware) : middleware[k] # p
  /\ middleware' = Append(middleware, p)
  /\ UNCHANGED <<clients, rooms, crooms, queue, closed, closes, smu, cmu,
                 handlers, pc, loc, rd, wr, hist, inputs, panic, capacity>>

\* ------------------------------------------------------------ application goroutine
\* A call of a Client method from a goroutine of the application, which holds
\* no lock; the Client is one a handler has been given.
AppCalls == {"Join", "Leave"}
AppCall(c, room, op) ==
  /\ Running /\ pc[App] = "app_idle"
  /\ inputs < MaxInputs
  /\ pc[Rd(c)] # "hw_register"
  /\ inputs' = inputs + 1
  /\ pc' = [pc EXCEPT ![App] = FirstPc(op)]
  /\ loc' = [loc EXCEPT ![App] = Frame(op, c, room, Message("app", c, "app", inputs + 1))]
  /\ UNCHANGED <<clients, rooms, crooms, queue, closed, closes, smu, cmu,
                 handlers, middleware, rd, wr, hist, panic, capacity>>

\* ------------------------------------------------------------ Client.writePump
\* case message, ok := <-c.send: one message is taken and written; a write
\* error (an input of the run), or the closed and drained queue, ends the loop
WritePump(s) ==
  /\ Running /\ wr[s] = "run"
  /\ \/ /\ queue[s] # <<>>
        /\ queue' = [queue EXCEPT ![s] = Tail(@)]
        /\ \/ UNCHANGED <<wr, inputs>>
           \/ /\ inputs < MaxInputs
              /\ inputs' = inputs + 1
              /\ wr' = [wr EXCEPT ![s] = "done"]
     \/ /\ queue[s] = <<>> /\ closed[s]
        /\ wr' = [wr EXCEPT ![s] = "done"]
        /\ UNCHANGED <<queue, inputs>>
  /\ UNCHANGED <<clients, rooms, crooms, closed, closes, smu, cmu, handlers,
                 middleware, pc, loc, rd, hist, panic, capacity>>

\* ------------------------------------------------------------ unsynchronized maps
\* The maps the next statement of task t reads ("r") or writes ("w").
Access(t) ==
  LET c == loc[t].c
      room == loc[t].room IN
  CASE pc[t] \in {"em_delete", "rg_insert", "un_check", "bc_delete"} -> {<<"clients", "w">>}
    [] pc[t] = "bc_loop" -> {<<"clients", "r">>}
    [] pc[t] = "jn_local" -> {<<c, "w">>, <<"rooms", "r">>}
    [] pc[t] = "jn_make" -> {<<"rooms", "w">>}
    [] pc[t] = "jn_insert" -> {<<"rooms", "r">>, <<room, "w">>}
    [] pc[t] = "lr_del" -> {<<"rooms", "r">>, <<room, "w">>}
    [] pc[t] = "lr_delroom" -> {<<"rooms", "w">>}
    [] pc[t] = "lr_clocal" -> {<<c, "w">>}
    [] pc[t] = "btr_lookup" /\ CanRLock(smu) -> {<<"rooms", "r">>}
    [] pc[t] = "btr_loop" -> {<<room, "r">>}
    [] pc[t] = "un_rooms" -> {<<c, "r">>}
    [] OTHER -> {}
\* the statements that read or write a map without synchronization of their own
MapPcs == {"em_delete", "rg_insert", "un_check", "bc_delete", "bc_loop",
           "jn_local", "jn_make", "jn_insert", "lr_del", "lr_delroom",
           "lr_clocal", "btr_lookup", "btr_loop", "un_rooms"}
Races(t, u) ==
  /\ pc[t] \in MapPcs /\ pc[u] \in MapPcs
  /\ \E a \in Access(t), b \in Access(u) : a[1] = b[1] /\ "w" \in {a[2], b[2]}

\* Two goroutines are in the same map at once, one of them writing: the Go
\* runtime may stop the process ("concurrent map writes", "concurrent map
\* read and map write", "concurrent map iteration and map write").  When it
\* does not, the statements take effect one after the other.
MapFault ==
  /\ Running
  /\ \E t \in Tasks : pc[t] \in MapPcs /\ \E u \in Tasks \ {t} : Races(t, u)
  /\ panic' = "concurrent map access"
  /\ UNCHANGED <<clients, rooms, crooms, queue, closed, closes, smu, cmu,
                 handlers, middleware, pc, loc, rd, wr, hist, inputs, capacity>>

\* ------------------------------------------------------------ specification
Method(t) ==
  \/ EmitSelect(t) \/ EmitClose(t) \/ EmitDelete(t)
  \/ JoinLock(t) \/ JoinLockWait(t) \/ JoinLocal(t) \/ JoinMake(t) \/ JoinInsert(t)
  \/ LeaveLock(t)
  \/ RoomLookup(t) \/ RoomLoop(t) \/ RoomReturn(t)
  \/ BroadcastRLock(t)

\* leaveRoom once s.mu.Lock() has been called: a task that holds s.mu itself,
\* as every handler run by readPump and the Hub's unregister case do, never
\* gets here
LeaveBody(t) ==
  \/ LeaveLockWait(t) \/ LeaveDelete(t) \/ LeaveDeleteRoom(t)
  \/ LeaveClientLock(t) \/ LeaveClientLockWait(t) \/ LeaveLocal(t)

HubStep ==
  \/ \E s \in Sessions : HubRegister(s) \/ HubUnregister(s)
  \/ \E t \in Tasks : HubBroadcast(t)
  \/ HubLock \/ HubLockWait \/ HubInsert \/ HubConnect
  \/ HubCheck \/ HubClose \/ HubRooms \/ HubDisconnect
  \/ HubRLock \/ HubLoop \/ HubShedClose \/ HubShedDelete

ReadStep(s) ==
  \/ ReadError(s) \/ ReadMalformed(s) \/ ReadMessage(s) \/ Dispatch(s)

\* the goroutines the server starts, with the calls their handlers make
Server ==
  \/ \E t \in Tasks : Method(t)
  \/ HubStep
  \/ \E s \in Sessions : ReadStep(s) \/ WritePump(s)
  \/ MapFault

\* the server and an application goroutine that calls Join and Leave
Next ==
  \/ Server
  \/ \E t \in Tasks : LeaveBody(t)
  \/ \E c \in Sessions, room \in Rooms, op \in AppCalls : AppCall(c, room, op)

Spec == Init /\ [][Next]_vars

\* the server with the middleware the application registered
NextUse ==
  \/ Server
  \/ \E p \in Preds : Use(p)

SpecUse == Init /\ [][NextUse]_vars

\* the server with the readPump that retries and then gives up
NextRetry ==
  \/ Server
  \/ \E s \in Sessions : ReadGiveUp(s) \/ ReadSkip(s)

SpecRetry == Init /\ [][NextRetry]_vars

\* the server alone, built with either buffer size
SpecWide == InitWide /\ [][Server]_vars

\* ------------------------------------------------------------ properties
\* task t is inside Client.Join or Server.leaveRoom
InMembershipCall(t) ==
  pc[t] \in {"jn_lock", "jn_lock_w", "jn_local", "jn_make", "jn_insert",
             "lr_lock", "lr_lock_w", "lr_del", "lr_delroom", "lr_clock",
             "lr_clock_w", "lr_clocal"}
\* the readPump of s is inside the handler of a client-sent event
InHandler(s) == loc[Rd(s)].op # None
\* every registered predicate lets the event ev of Session c through
AllowsAll(c, ev) == \A k \in 1..Len(middleware) : PredOK(middleware[k], c, ev)
\* how many times the call in progress in t enqueued to x
TimesSent(t, x) == Cardinality({k \in 1..Len(loc[t].sent) : loc[t].sent[k] = x})

\* C1: whenever no Join or Leave is in progress, a room is in a Session's
\* local room set exactly when the Session is in the Room Index's member set
\* of that room, and the Room Index has no entry with an empty member set.
C1_MembershipAgrees ==
  (\A t \in Tasks : ~InMembershipCall(t)) =>
    /\ \A s \in Sessions, r \in Rooms :
         r \in crooms[s] <=> (rooms[r].ex /\ s \in rooms[r].mem)
    /\ \A r \in Rooms : rooms[r].ex => rooms[r].mem # {}

\* C2: the outbound queue of a Session is closed at most once, whichever
\* tasks reach it while it is full.
C2_ClosedOnce == \A s \in Sessions : closes[s] <= 1

\* C3: the Hub, processing a Deregister request, always finishes it: it is
\* never about to call s.mu.Lock() in leaveRoom while it holds s.mu itself,
\* a call that cannot return.
C3_DeregisterFinishes ==
  ~(loc[Hub].op = "unregister" /\ pc[Hub] = "lr_lock" /\ smu.w = Hub /\ smu.held)

\* C4: the disconnect handler fires at most once for a Session, also when a
\* second Deregister request for the Session is processed.
C4_DisconnectOnce == \A s \in Sessions : hist[s].disconnectFired <= 1

\* C5: when a call c.BroadcastToRoom(room, ...) is about to return, it has
\* enqueued the message exactly once to every Session other than c that was
\* a member of room when the call looked the room up, and never to c.
C5_RoomDelivery ==
  \A t \in Tasks :
    (pc[t] = "btr_ret" /\ loc[t].op = "BroadcastToRoom") =>
      /\ \A x \in loc[t].snap \ {loc[t].c} : TimesSent(t, x) = 1
      /\ TimesSent(t, loc[t].c) = 0

\* C6: a message of c.Broadcast is never in c's own outbound queue.
C6_NotToSelf ==
  \A s \in Sessions : \A k \in 1..Len(queue[s]) :
    ~(queue[s][k].ev = "all" /\ queue[s][k].c = s)

\* C7: for the inbound event a readPump has read, the predicates that ran
\* are the registered ones in registration order up to and including the
\* first that returned false; when one returned false the readPump is not
\* dispatching and is in no handler (it is back at its read, or in its
\* teardown after a later read error); and every handler call in progress
\* and every enqueued message that an inbound event caused comes from an
\* event that all registered predicates let through.
C7_MiddlewareOrder ==
  /\ \A s \in Sessions :
       LET ran == rd[s].ran
           ev == rd[s].ev IN
       ev # None =>
         /\ Len(ran) <= Len(middleware)
         /\ \A k \in 1..Len(ran) : ran[k] = middleware[k]
         /\ \A k \in 1..(Len(ran) - 1) : PredOK(ran[k], s, ev)
         /\ Len(ran) < Len(middleware) =>
              (Len(ran) >= 1 /\ ~PredOK(ran[Len(ran)], s, ev))
         /\ ~AllowsAll(s, ev) => (pc[Rd(s)] # "rd_dispatch" /\ ~InHandler(s))
  /\ \A t \in Tasks : loc[t].m.by = "rd" => AllowsAll(loc[t].m.c, loc[t].m.ev)
  /\ \A x \in Sessions : \A k \in 1..Len(queue[x]) :
       queue[x][k].by = "rd" => AllowsAll(queue[x][k].c, queue[x][k].ev)

\* C7, its case: with "gate" registered before "log", a readPump has read
\* an "emit" event, "gate" returned false, "log" did not run, and the
\* readPump is back at its read.
C7_Blocked ==
  \E s \in Sessions :
    /\ middleware = <<"gate", "log">>
    /\ rd[s].ev = "emit" /\ rd[s].ran = <<"gate">>
    /\ rd[s].n \in hist[s].blocked
    /\ pc[Rd(s)] = "rd_read"

\* C8: after a payload failed to decode, the next message the readPump has
\* read is dispatched: the readPump is never waiting for s.mu.RLock() behind
\* a writer that itself waits for the read lock the readPump still holds.
C8_NextDispatched ==
  \A s \in Sessions :
    ~(pc[Rd(s)] = "rd_dispatch" /\ smu.r[Rd(s)] > 0 /\ smu.w # NoTask /\ ~smu.held)

\* C9: the connect handler fires at most once for a Session, and it has
\* fired whenever the readPump of the Session is inside the handler of a
\* client-sent event.
C9_ConnectFirst ==
  \A s \in Sessions :
    /\ hist[s].connectFired <= 1
    /\ InHandler(s) => hist[s].connectFired = 1

\* C10: a call of Broadcast is never stuck: it is never waiting to hand its
\* message to the Hub while the Hub waits, in s.mu.Lock(), for the read lock
\* the caller holds.
C10_NeverWaits ==
  \A t \in Tasks :
    ~(pc[t] = "br_send" /\ smu.r[t] > 0 /\ smu.w = Hub /\ ~smu.held)

\* C11: after a handler call returned an error the Hub keeps serving: it is
\* never waiting in s.mu.Lock() for a read lock of a readPump that is outside
\* every handler (back at its read, or in its teardown).
C11_OthersProgress ==
  \A s \in Sessions :
    ~(/\ smu.w = Hub /\ ~smu.held
      /\ pc[Rd(s)] \in {"rd_read", "rd_defer", "rd_done"}
      /\ smu.r[Rd(s)] > 0)

\* C12: a readPump whose last frame was malformed has not left its loop: it
\* has not gone on to its deferred function, which submits the
\* deregistration request.
C12_MalformedDropped ==
  \A s \in Sessions :
    rd[s].data = Malformed => pc[Rd(s)] \notin {"rd_defer", "rd_done"}

\* C13: the content of a Session's outbound queue changes in two ways only:
\* the writePump takes the message at its head, or a task that is sending
\* (Emit, called directly or by BroadcastToRoom, or the Hub's broadcast) puts
\* its own message behind every message already there.  So what the
\* writePump has written is a prefix of what was enqueued, in the same order,
\* with nothing written twice, whichever tasks enqueued.
C13_WrittenInOrder ==
  [][\A s \in Sessions :
       queue'[s] # queue[s] =>
         \/ queue[s] # <<>> /\ wr[s] = "run" /\ queue'[s] = Tail(queue[s])
         \/ \E t \in Tasks :
              /\ \/ pc[t] = "em_select" /\ loc[t].tgt = s
                 \/ t = Hub /\ pc[t] = "bc_loop"
              /\ queue'[s] = queue[s] \o <<loc[t].m>>]_vars

\* two messages of different calls wait, in the order of their enqueues, in
\* the queue of a Session whose writePump is running
C13_TwoEnqueued ==
  \E s \in Sessions :
    /\ wr[s] = "run" /\ Len(queue[s]) = 2
    /\ <<queue[s][1].by, queue[s][1].n>> # <<queue[s][2].by, queue[s][2].n>>

\* C14: a registered Session whose read failed gets its deregistration
\* request to the Hub and leaves the registry: it is never left in the
\* registry, waiting to send the request, while the Hub can never return to
\* its select because it waits in leaveRoom for the s.mu it holds itself.
C14_Deregistered ==
  \A s \in Sessions :
    ~(/\ s \in clients /\ pc[Rd(s)] = "rd_defer" /\ rd[s].data # Malformed
      /\ pc[Hub] = "lr_lock" /\ smu.w = Hub /\ smu.held)

\* C15: a Session is inserted into the registry before anything removes it,
\* and never after: the Hub is never about to insert a Session whose queue a
\* shed has closed and whose removal from the registry the shed has already
\* executed.
C15_RegistryOrder ==
  LET c == loc[Hub].c IN
  ~(/\ pc[Hub] = "rg_insert" /\ closed[c]
    /\ \A t \in Tasks : ~(pc[t] = "em_delete" /\ loc[t].tgt = c))

\* task t holds s.mu (shared or exclusive) or the c.mu of some Session
HoldsLock(t) ==
  \/ smu.r[t] > 0
  \/ smu.w = t /\ smu.held
  \/ \E s \in Sessions : cmu[s].r[t] > 0 \/ (cmu[s].w = t /\ cmu[s].held)

\* C16: a task that waits to send on a channel of the Hub (Broadcast's send
\* on s.broadcast, readPump's send on s.unregister), or that is about to
\* enqueue to a Session's queue, holds neither s.mu nor any c.mu.
C16_NoLockAcrossWait ==
  \A t \in Tasks :
    pc[t] \in {"br_send", "rd_defer", "rd_giveup", "em_select"} => ~HoldsLock(t)

\* the next statement of task t writes s.clients, s.rooms or a room's member set
WritesIndex(t) ==
  /\ pc[t] \in MapPcs
  /\ \E a \in Access(t) : a[2] = "w" /\ a[1] \in {"clients", "rooms"} \cup Rooms

\* C17: a task about to insert into or delete from the registry or the Room
\* Index holds s.mu in exclusive mode.
C17_WritesUnderLock ==
  \A t \in Tasks : WritesIndex(t) => (smu.w = t /\ smu.held)

\* C18: a call of Join or Leave made by a handler of a Session's readPump
\* returns: the readPump is never waiting in s.mu.Lock() of leaveRoom for
\* the read lock on s.mu that it took itself before it called the handler.
C18_HandlerCallReturns ==
  \A s \in Sessions :
    ~(/\ pc[Rd(s)] = "lr_lock_w" /\ smu.w = Rd(s) /\ ~smu.held
      /\ smu.r[Rd(s)] > 0)

\* C19: no send is executed on a closed queue: a run never ends in the panic
\* of a send on a closed channel, raised by Emit (called directly or by
\* BroadcastToRoom) or by the Hub's broadcast.
C19_NoSendOnClosed == panic # "send on closed channel"

\* C20: whenever the Hub is at its select, with no request in processing,
\* every member of every room of the Room Index is in the registry.
C20_MembersRegistered ==
  pc[Hub] = "hub_select" =>
    \A r \in Rooms : rooms[r].mem \subseteq clients

====
